---- MODULE Spec2Model ----
(***************************************************************************)
(* A model of libbitmap (bitmap.h): the BMP encoder GenerateBitMapData /   *)
(* CreateBitMap, the decoder ReadBitMap, the pixel operations InvertPixel  *)
(* and SetPixel, and cleanup.                                              *)
(*                                                                         *)
(* int32_t and uint16_t values are TLA+ integers.  A uint32_t value does   *)
(* not fit the integers TLC computes with, so every 32-bit word is kept as *)
(* its four little-endian bytes (which is also its layout in the packed    *)
(* headers on disk) and the arithmetic is done on the bytes, modulo 2^32.  *)
(***************************************************************************)
EXTENDS Integers, Sequences, FiniteSets, TLC

\* ------------------------------------------------------------------------
\* Bounds of the model
\* ------------------------------------------------------------------------
MaxWidth == 3
MaxHeight == 2
MaxInverts == 2
MaxSetPixels == 1
MaxCleanups == 3

\* ------------------------------------------------------------------------
\* Fixed-width integers as little-endian byte sequences
\* ------------------------------------------------------------------------
RECURSIVE LE(_, _)
\* the n low bytes of the two's complement of v, least significant first
LE(v, n) == IF n = 0 THEN <<>> ELSE <<v % 256>> \o LE(v \div 256, n - 1)

\* a uint32_t / the bit pattern of an int32_t
U32(v) == LE(v, 4)

\* a 64-bit register holding the (sign-extended) value v
U64(v) == LE(v, 8)

RECURSIVE Reverse(_)
Reverse(s) == IF s = <<>> THEN <<>> ELSE Reverse(Tail(s)) \o <<Head(s)>>

RECURSIVE Zeros(_)
Zeros(n) == IF n = 0 THEN <<>> ELSE <<0>> \o Zeros(n - 1)

RECURSIVE AddC(_, _, _)
AddC(a, b, c) ==
    IF a = <<>> THEN <<>>
    ELSE LET s == a[1] + b[1] + c
         IN  <<s % 256>> \o AddC(Tail(a), Tail(b), s \div 256)

\* a + b modulo 256^Len(a)
WAdd(a, b) == AddC(a, b, 0)

\* -a modulo 256^Len(a)
WNeg(a) == AddC([i \in 1..Len(a) |-> 255 - a[i]], Zeros(Len(a)), 1)

RECURSIVE MulByte(_, _, _)
MulByte(a, k, c) ==
    IF a = <<>> THEN <<>>
    ELSE LET p == a[1] * k + c
         IN  <<p % 256>> \o MulByte(Tail(a), k, p \div 256)

RECURSIVE WMul(_, _)
\* a * b modulo 256^Len(a)
WMul(a, b) ==
    IF a = <<>> THEN <<>>
    ELSE WAdd(MulByte(a, b[1], 0),
              <<0>> \o WMul(SubSeq(a, 1, Len(a) - 1), Tail(b)))

RECURSIVE UDivBE(_, _, _)
UDivBE(be, d, r) ==
    IF be = <<>> THEN <<>>
    ELSE LET t == r * 256 + be[1]
         IN  <<t \div d>> \o UDivBE(Tail(be), d, t % d)

\* unsigned a / d for a divisor 0 < d < 256
UDiv(a, d) == Reverse(UDivBE(Reverse(a), d, 0))

WIsNeg(a) == a[Len(a)] >= 128

\* C's signed division, which truncates toward zero
SDiv(a, d) == IF WIsNeg(a) THEN WNeg(UDiv(WNeg(a), d)) ELSE UDiv(a, d)

RECURSIVE WLessBE(_, _)
WLessBE(x, y) ==
    IF x = <<>> THEN FALSE
    ELSE IF x[1] # y[1] THEN x[1] < y[1]
    ELSE WLessBE(Tail(x), Tail(y))

\* unsigned a < b
WLess(a, b) == WLessBE(Reverse(a), Reverse(b))

WLeq(a, b) == ~WLess(b, a)

\* a & ~3
WAlignDown4(a) == [a EXCEPT ![1] = a[1] - (a[1] % 4)]

\* zero-extension of a 32-bit word to 64 bits
Widen(a) == a \o Zeros(4)

\* the low 32 bits of a 64-bit value
Narrow(a) == SubSeq(a, 1, 4)

\* TRUE when the unsigned word is below 2^31, so that WVal can give its value
WSmall(a) == \A i \in 1..Len(a) : (i > 4 => a[i] = 0) /\ (i = 4 => a[i] < 128)

RECURSIVE WVal(_)
\* the value of a word for which WSmall holds
WVal(a) == IF a = <<>> \/ \A i \in 1..Len(a) : a[i] = 0 THEN 0
           ELSE a[1] + 256 * WVal(Tail(a))

\* ------------------------------------------------------------------------
\* Macros and header layout
\* ------------------------------------------------------------------------
S_RGB == 1111970419
BI_RGB == 0
BI_BITFIELDS == 3
Resolution == 2835

\* ROW_SIZE evaluated in int, wrapping at 32 bits on overflow
RowSizeInt32(bits_per_pixel, image_width) ==
    WMul(SDiv(WAdd(WMul(U32(bits_per_pixel), U32(image_width)), U32(31)), 32),
         U32(4))

\* ROW_SIZE evaluated in a 64-bit register and truncated when it is stored
\* in a uint32_t
RowSizeInt64(bits_per_pixel, image_width) ==
    Narrow(WMul(SDiv(WAdd(WMul(U64(bits_per_pixel), U64(image_width)), U64(31)), 32),
                U64(4)))

\* The values ROW_SIZE can yield.  bits_per_pixel * image_width + 31 is int
\* arithmetic: when it overflows the behaviour is undefined and a build may
\* wrap or keep the wide value; without overflow the two coincide.
ROW_SIZE(bits_per_pixel, image_width) ==
    {RowSizeInt32(bits_per_pixel, image_width),
     RowSizeInt64(bits_per_pixel, image_width)}

\* IMAGE_SIZE(row_size, height): uint32_t * int32_t, unsigned arithmetic
IMAGE_SIZE(row_size, height) == WMul(row_size, U32(height))

SizeofFileHeader == 2 + 4 + 2 + 2 + 4

SizeofInfoHeader == 4 + 4 + 4 + 2 + 2 + 4 + 4 + 4 + 4 + 4 + 4
                    + 4 + 4 + 4 + 4 + 4 + 9 * 4 + 4 + 4 + 4

\* The packed BITMAPFILEHEADER as the bytes fwrite puts on disk
FileHeaderBytes(fh) ==
    fh.header_field \o fh.size \o LE(fh.reserved1, 2) \o LE(fh.reserved2, 2)
    \o fh.offset

\* The packed BITMAPV4HEADER as the bytes fwrite puts on disk
InfoHeaderBytes(ih) ==
    ih.header_size \o U32(ih.bitmap_width) \o U32(ih.bitmap_height)
    \o LE(ih.n_color_planes, 2) \o LE(ih.bits_per_pixel, 2)
    \o ih.compression_method \o ih.image_size
    \o U32(ih.horizontal_resolution) \o U32(ih.vertical_resolution)
    \o ih.n_colors_in_palette \o ih.important_colors
    \o ih.red_mask \o ih.green_mask \o ih.blue_mask \o ih.alpha_mask
    \o ih.color_space \o ih.color_end_points
    \o ih.red_gamma \o ih.green_gamma \o ih.blue_gamma

\* the value of an int32_t field read from its four bytes
I32Val(b) == IF WIsNeg(b) THEN 0 - WVal(WNeg(b)) ELSE WVal(b)

\* fread into a BITMAPFILEHEADER
ParseFileHeader(b) ==
    [header_field |-> SubSeq(b, 1, 2),
     size         |-> SubSeq(b, 3, 6),
     reserved1    |-> WVal(SubSeq(b, 7, 8)),
     reserved2    |-> WVal(SubSeq(b, 9, 10)),
     offset       |-> SubSeq(b, 11, 14)]

\* fread into a BITMAPV4HEADER
ParseInfoHeader(b) ==
    [header_size           |-> SubSeq(b, 1, 4),
     bitmap_width          |-> I32Val(SubSeq(b, 5, 8)),
     bitmap_height         |-> I32Val(SubSeq(b, 9, 12)),
     n_color_planes        |-> WVal(SubSeq(b, 13, 14)),
     bits_per_pixel        |-> WVal(SubSeq(b, 15, 16)),
     compression_method    |-> SubSeq(b, 17, 20),
     image_size            |-> SubSeq(b, 21, 24),
     horizontal_resolution |-> I32Val(SubSeq(b, 25, 28)),
     vertical_resolution   |-> I32Val(SubSeq(b, 29, 32)),
     n_colors_in_palette   |-> SubSeq(b, 33, 36),
     important_colors      |-> SubSeq(b, 37, 40),
     red_mask              |-> SubSeq(b, 41, 44),
     green_mask            |-> SubSeq(b, 45, 48),
     blue_mask             |-> SubSeq(b, 49, 52),
     alpha_mask            |-> SubSeq(b, 53, 56),
     color_space           |-> SubSeq(b, 57, 60),
     color_end_points      |-> SubSeq(b, 61, 96),
     red_gamma             |-> SubSeq(b, 97, 100),
     green_gamma           |-> SubSeq(b, 101, 104),
     blue_gamma            |-> SubSeq(b, 105, 108)]

\* ------------------------------------------------------------------------
\* Memory, pointers and streams
\* ------------------------------------------------------------------------
\* the content of a byte malloc returned and nothing has written yet
Uninit == -1

\* a null uint8_t*
NullBuf == [id |-> "NULL", cap |-> <<>>, mem |-> <<>>]

\* malloc(size): a block of size bytes, of which mem holds those written so
\* far (the bytes from Len(mem) up to cap are uninitialised).  A request of
\* 2 GiB or more may also fail.
Malloc(id, size) ==
    {[id |-> id, cap |-> size, mem |-> <<>>]}
    \cup (IF WSmall(size) THEN {} ELSE {NullBuf})

\* what reading a FILE* that was never assigned can give: null, the address
\* of a stream that was closed, or an address that is no stream at all
UninitFilePointer == {"NULL", "fRead", "wild"}

\* the whole block of a buffer, cap cells, uninitialised past what was written
Cells(buf) == buf.mem \o [i \in 1..(WVal(buf.cap) - Len(buf.mem)) |-> Uninit]

\* ------------------------------------------------------------------------
\* GenerateBitMapData
\* ------------------------------------------------------------------------
RECURSIVE CopyRows(_, _, _, _, _, _)
\* the loop of GenerateBitMapData from row y on: each row's width * pixel_size
\* bytes of the input, then row_size - width * pixel_size zero bytes
CopyRows(pixels, width, pixel_size, row_size, y, height) ==
    IF ~(y < height) THEN <<>>
    ELSE SubSeq(pixels, y * width * pixel_size + 1, (y + 1) * width * pixel_size)
         \o Zeros(WVal(row_size) - width * pixel_size)
         \o CopyRows(pixels, width, pixel_size, row_size, y + 1, height)

EncoderColorSpace(bits_per_pixel) == U32(S_RGB)

\* EncoderMask with the test of the depth dropped: the masks at every depth
EncoderMaskAlways(bits_per_pixel, mask) == mask

EncoderMask(bits_per_pixel, mask) == IF bits_per_pixel = 32 THEN mask ELSE U32(0)

EncoderFileHeader(image_size) ==
    [header_field |-> <<66, 77>>,
     size         |-> WAdd(U32(SizeofFileHeader + SizeofInfoHeader), image_size),
     reserved1    |-> 0,
     reserved2    |-> 0,
     offset       |-> U32(SizeofFileHeader + SizeofInfoHeader)]

EncoderInfoHeader(width, height, bits_per_pixel, compression, image_size) ==
    [header_size           |-> U32(SizeofInfoHeader),
     bitmap_width          |-> width,
     bitmap_height         |-> height,
     n_color_planes        |-> 1,
     bits_per_pixel        |-> bits_per_pixel,
     compression_method    |-> U32(compression),
     image_size            |-> image_size,
     horizontal_resolution |-> Resolution,
     vertical_resolution   |-> Resolution,
     n_colors_in_palette   |-> U32(0),
     important_colors      |-> U32(0),
     red_mask              |-> EncoderMask(bits_per_pixel, <<0, 0, 255, 0>>),
     green_mask            |-> EncoderMask(bits_per_pixel, <<0, 255, 0, 0>>),
     blue_mask             |-> EncoderMask(bits_per_pixel, <<255, 0, 0, 0>>),
     alpha_mask            |-> EncoderMask(bits_per_pixel, <<0, 0, 0, 255>>),
     color_space           |-> EncoderColorSpace(bits_per_pixel),
     color_end_points      |-> Zeros(9 * 4),
     red_gamma             |-> U32(0),
     green_gamma           |-> U32(0),
     blue_gamma            |-> U32(0)]

\* The BITMAPs GenerateBitMapData can return.  The file member of the
\* malloc'ed struct is never assigned.
GenerateBitMapData(width, height, bits_per_pixel, pixels, compression) ==
    UNION { { [file        |-> "uninit",
               file_header |-> EncoderFileHeader(IMAGE_SIZE(row_size, height)),
               info_header |-> EncoderInfoHeader(width, height, bits_per_pixel,
                                                 compression,
                                                 IMAGE_SIZE(row_size, height)),
               pixels      |-> IF buf = NullBuf THEN NullBuf
                               ELSE [buf EXCEPT !.mem =
                                       CopyRows(pixels, width, bits_per_pixel \div 8,
                                                row_size, 0, height)]]
              : buf \in Malloc("encoded", IMAGE_SIZE(row_size, height)) }
            : row_size \in ROW_SIZE(bits_per_pixel, width) }

\* ------------------------------------------------------------------------
\* State
\* ------------------------------------------------------------------------
VARIABLES
    args,         \* the caller's width, height, bits_per_pixel, pixels, compression
    pc,           \* where the caller is: in CreateBitMap, or past it
    bitmap_data,  \* CreateBitMap's bitmap_data, then the BITMAP it returned
    rpc,          \* where ReadBitMap is
    bitmap,       \* ReadBitMap's bitmap, then the BITMAP it returned
    rd,           \* ReadBitMap's row_size, pixel_size, padded_row_size, ptr, y
    disk,         \* the bytes of the file file_name
    streams,      \* the FILE objects: open or not, mode, position
    iolog,        \* the stdio calls made so far, in order
    frees,        \* the blocks passed to free so far, in order
    oob,          \* <<block, offset>> of every byte written outside its block
    stderr,       \* the diagnostics printed
    cleanups,     \* how many times cleanup was called on each BITMAP
    hist,         \* the pixel operations called so far, the buffer before the last
                  \* one and before the one before it, the offsets the last touched
    row           \* the value a lone evaluation of ROW_SIZE yielded

vars == <<args, pc, bitmap_data, rpc, bitmap, rd, disk, streams, iolog, frees,
          oob, stderr, cleanups, hist, row>>

NoImage == [file |-> "NULL", pixels |-> NullBuf]

ClosedStream == [open |-> FALSE, mode |-> "", pos |-> 0]

\* the unpadded input buffers the model draws: n bytes, all different for
\* the sizes used, starting at seed
Pattern(seed, n) == [i \in 1..n |-> (seed + 37 * (i - 1)) % 256]

Seeds == {0, 101, 255}

Depths == {24, 32}

Compressions == {BI_RGB, BI_BITFIELDS}

Abs(n) == IF n < 0 THEN 0 - n ELSE n

InitRest ==
    /\ pc = "start"
    /\ bitmap_data = NoImage
    /\ rpc = "idle"
    /\ bitmap = NoImage
    /\ rd = [row_size |-> U32(0), pixel_size |-> 0, padded_row_size |-> U32(0),
             ptr |-> 0, y |-> 0]
    /\ disk = <<>>
    /\ streams = [f \in {"fCreate", "fRead"} |-> ClosedStream]
    /\ iolog = <<>>
    /\ frees = <<>>
    /\ oob = {}
    /\ stderr = <<>>
    /\ cleanups = [created |-> 0, read |-> 0, null |-> 0]
    /\ hist = [calls |-> <<>>, before2 |-> <<>>, before |-> <<>>, touched |-> {}]
    /\ row = <<>>

\* a caller about to create a width x height image, height > 0
Init ==
    /\ \E width \in 1..MaxWidth, height \in 1..MaxHeight,
          bits_per_pixel \in Depths, seed \in Seeds, compression \in Compressions :
          args = [width |-> width, height |-> height,
                  bits_per_pixel |-> bits_per_pixel,
                  pixels |-> Pattern(seed, width * height * (bits_per_pixel \div 8)),
                  compression |-> compression]
    /\ InitRest

\* ------------------------------------------------------------------------
\* stdio and memory helpers
\* ------------------------------------------------------------------------
Min(a, b) == IF a < b THEN a ELSE b

Max(a, b) == IF a < b THEN b ELSE a

\* fwrite of bytes at position pos of the file
Fwrite(content, pos, bytes) ==
    SubSeq(content, 1, pos) \o bytes
    \o SubSeq(content, pos + Len(bytes) + 1, Len(content))

\* fread of up to n bytes at position pos of the file
Fread(content, pos, n) == SubSeq(content, pos + 1, Min(pos + n, Len(content)))

\* a block after bytes were stored at offset at; what falls past cap is lost
\* to the block (it lands outside it)
StoreAt(buf, at, bytes) ==
    [buf EXCEPT !.mem =
        [i \in 1..Min(Max(Len(buf.mem), at + Len(bytes)), WVal(buf.cap)) |->
            IF at < i /\ i <= at + Len(bytes) THEN bytes[i - at]
            ELSE IF i <= Len(buf.mem) THEN buf.mem[i]
            ELSE Uninit]]

\* the offsets outside the block that a store of n bytes at offset at hits
Outside(buf, at, n) ==
    {<<buf.id, o>> : o \in {k \in at..(at + n - 1) : k >= WVal(buf.cap)}}

\* ------------------------------------------------------------------------
\* CreateBitMap, one action per statement
\* ------------------------------------------------------------------------
Log(op, f, n) == Append(iolog, [op |-> op, f |-> f, n |-> n])

\* fclose(f): n records whether f was an open stream when it was closed
FcloseEntry(f) ==
    [op |-> "fclose", f |-> f,
     n  |-> IF f \in DOMAIN streams /\ streams[f].open THEN 1 ELSE 0]

\* PBITMAP bitmap_data = GenerateBitMapData(width, height, color_depth, ...)
Generate ==
    /\ pc = "start"
    /\ bitmap_data' \in GenerateBitMapData(args.width, args.height,
                                           args.bits_per_pixel, args.pixels,
                                           args.compression)
    /\ pc' = "generated"
    /\ UNCHANGED <<args, rpc, bitmap, rd, disk, streams, iolog, frees, oob,
                   stderr, cleanups, hist, row>>

\* FILE *bitmap_file = fopen(file_name, "wb+"): the file is created or
\* truncated
CreateFopen ==
    /\ pc = "generated"
    /\ disk' = <<>>
    /\ streams' = [streams EXCEPT !["fCreate"] =
                       [open |-> TRUE, mode |-> "wb+", pos |-> 0]]
    /\ iolog' = Log("fopen", "fCreate", 0)
    /\ pc' = "opened"
    /\ UNCHANGED <<args, bitmap_data, rpc, bitmap, rd, frees, oob, stderr,
                   cleanups, hist, row>>

\* one fwrite of WriteToBitMapFile: bytes go to the stream's position
FwriteStep(from, to, bytes) ==
    /\ pc = from
    /\ disk' = Fwrite(disk, streams["fCreate"].pos, bytes)
    /\ streams' = [streams EXCEPT !["fCreate"].pos = @ + Len(bytes)]
    /\ iolog' = Log("fwrite", "fCreate", Len(bytes))
    /\ pc' = to
    /\ UNCHANGED <<args, bitmap_data, rpc, bitmap, rd, frees, oob, stderr,
                   cleanups, hist, row>>

\* fwrite(&bitmap_data->file_header, sizeof(bitmap_data->file_header), 1, f)
WriteFileHeader ==
    FwriteStep("opened", "wroteFileHeader", FileHeaderBytes(bitmap_data.file_header))

\* fwrite(&bitmap_data->info_header, sizeof(bitmap_data->info_header), 1, f)
WriteInfoHeader ==
    FwriteStep("wroteFileHeader", "wroteInfoHeader",
               InfoHeaderBytes(bitmap_data.info_header))

\* fwrite(bitmap_data->pixels, bitmap_data->info_header.image_size, 1, f)
WritePixels ==
    FwriteStep("wroteInfoHeader", "wrotePixels",
               SubSeq(Cells(bitmap_data.pixels), 1,
                      WVal(bitmap_data.info_header.image_size)))

\* CreateReturn without the fseek: the stream stays at the end of the file
CreateReturnNoRewind ==
    /\ pc = "wrotePixels"
    /\ bitmap_data' = [bitmap_data EXCEPT !.file = "fCreate"]
    /\ pc' = "created"
    /\ UNCHANGED <<args, rpc, bitmap, rd, disk, streams, iolog, frees, oob,
                   stderr, cleanups, hist, row>>

\* fseek(bitmap_file, 0, SEEK_SET); bitmap_data->file = bitmap_file;
\* return *bitmap_data
CreateReturn ==
    /\ pc = "wrotePixels"
    /\ streams' = [streams EXCEPT !["fCreate"].pos = 0]
    /\ iolog' = Log("fseek", "fCreate", 0)
    /\ bitmap_data' = [bitmap_data EXCEPT !.file = "fCreate"]
    /\ pc' = "created"
    /\ UNCHANGED <<args, rpc, bitmap, rd, disk, frees, oob, stderr, cleanups,
                   hist, row>>

\* ------------------------------------------------------------------------
\* ReadBitMap of the file CreateBitMap wrote
\* ------------------------------------------------------------------------
\* ReadAlloc sized for unpadded 24bpp rows: malloc(width * height * 3)
ReadAllocUnpadded(info_header) ==
    Malloc("decoded", U32(info_header.bitmap_width * info_header.bitmap_height * 3))

\* malloc(bitmap.info_header.image_size)
ReadAlloc(info_header) == Malloc("decoded", info_header.image_size)

\* ReadAdvance by the padded row: ptr += row_size
ReadAdvancePadded(info_header, pixel_size) ==
    WVal(RowSizeInt32(info_header.bits_per_pixel, info_header.bitmap_width))

\* ptr += bitmap.info_header.bitmap_width * pixel_size
ReadAdvance(info_header, pixel_size) == info_header.bitmap_width * pixel_size

\* From fopen to the malloc before the row loop.  The caller is not inside
\* another call (single-threaded), and the file exists.
ReadOpen ==
    /\ pc = "created"
    /\ rpc = "idle"
    /\ LET fh == ParseFileHeader(Fread(disk, 0, SizeofFileHeader))
           ih == ParseInfoHeader(Fread(disk, SizeofFileHeader, SizeofInfoHeader))
           pixel_size == ih.bits_per_pixel \div 8
       IN  /\ \E row_size \in ROW_SIZE(ih.bits_per_pixel, ih.bitmap_width),
                 buf \in ReadAlloc(ih) :
                 /\ rd' = [row_size        |-> row_size,
                           pixel_size      |-> pixel_size,
                           padded_row_size |->
                               WAlignDown4(WAdd(WMul(U32(ih.bitmap_width),
                                                     U32(pixel_size)), U32(3))),
                           ptr             |-> 0,
                           y               |-> 0]
                 /\ bitmap' = [file        |-> "uninit",
                               file_header |-> fh,
                               info_header |-> ih,
                               pixels      |-> buf]
           /\ streams' = [streams EXCEPT !["fRead"] =
                              [open |-> TRUE, mode |-> "rb", pos |-> WVal(fh.offset)]]
           /\ iolog' = iolog \o <<[op |-> "fopen", f |-> "fRead", n |-> 0],
                                  [op |-> "fread", f |-> "fRead", n |-> SizeofFileHeader],
                                  [op |-> "fread", f |-> "fRead", n |-> SizeofInfoHeader],
                                  [op |-> "fseek", f |-> "fRead", n |-> WVal(fh.offset)]>>
    /\ rpc' = "rows"
    /\ UNCHANGED <<args, pc, bitmap_data, disk, frees, oob, stderr, cleanups,
                   hist, row>>

\* One iteration of the row loop: fread of padded_row_size bytes to ptr,
\* fseek over row_size - padded_row_size, ptr += width * pixel_size
ReadRow ==
    /\ rpc = "rows"
    /\ rd.y < bitmap.info_header.bitmap_height
    /\ LET got == Fread(disk, streams["fRead"].pos, WVal(rd.padded_row_size))
           skip == WVal(WAdd(rd.row_size, WNeg(rd.padded_row_size)))
       IN  /\ bitmap' = [bitmap EXCEPT !.pixels = StoreAt(@, rd.ptr, got)]
           /\ oob' = oob \cup Outside(bitmap.pixels, rd.ptr, Len(got))
           /\ streams' = [streams EXCEPT !["fRead"].pos = @ + Len(got) + skip]
           /\ iolog' = iolog \o <<[op |-> "fread", f |-> "fRead", n |-> Len(got)],
                                  [op |-> "fseek", f |-> "fRead", n |-> skip]>>
    /\ rd' = [rd EXCEPT !.ptr = @ + ReadAdvance(bitmap.info_header, rd.pixel_size),
                        !.y = @ + 1]
    /\ UNCHANGED <<args, pc, bitmap_data, rpc, disk, frees, stderr, cleanups,
                   hist, row>>

\* fclose(bitmap_file); return bitmap.  bitmap.file was never assigned.
ReadReturn ==
    /\ rpc = "rows"
    /\ ~(rd.y < bitmap.info_header.bitmap_height)
    /\ streams' = [streams EXCEPT !["fRead"].open = FALSE]
    /\ iolog' = Append(iolog, FcloseEntry("fRead"))
    /\ rpc' = "returned"
    /\ UNCHANGED <<args, pc, bitmap_data, bitmap, rd, disk, frees, oob, stderr,
                   cleanups, hist, row>>

\* ------------------------------------------------------------------------
\* cleanup
\* ------------------------------------------------------------------------
\* The caller is between calls: not inside CreateBitMap or ReadBitMap
Idle == pc \in {"start", "created"} /\ rpc # "rows"

CleanupCalls == cleanups.created + cleanups.read + cleanups.null

\* cleanup(NULL)
CleanupNull ==
    /\ Idle
    /\ CleanupCalls < MaxCleanups
    /\ stderr' = Append(stderr, "bmp is NULL. Not freeing!")
    /\ cleanups' = [cleanups EXCEPT !.null = @ + 1]
    /\ UNCHANGED <<args, pc, bitmap_data, rpc, bitmap, rd, disk, streams, iolog,
                   frees, oob, hist, row>>

\* what cleanup(bmp) does to *bmp and to the heap and the streams, f being
\* the value it reads from bmp->file
CleanupBody(bmp, f) ==
    /\ frees' = IF bmp.pixels # NullBuf THEN Append(frees, bmp.pixels.id) ELSE frees
    /\ iolog' = IF f # "NULL" THEN Append(iolog, FcloseEntry(f)) ELSE iolog
    /\ streams' = IF f \in DOMAIN streams
                  THEN [streams EXCEPT ![f].open = FALSE] ELSE streams
    /\ stderr' = stderr
                 \o (IF bmp.pixels # NullBuf THEN <<>>
                     ELSE <<"bmp->pixels is NULL. Not freeing!">>)
                 \o (IF f # "NULL" THEN <<>>
                     ELSE <<"bmp->file is NULL. Not closing!">>)

\* the values a read of bmp->file yields
FileValue(bmp) == IF bmp.file = "uninit" THEN UninitFilePointer ELSE {bmp.file}

\* cleanup(&image) on the BITMAP CreateBitMap returned
CleanupCreated ==
    /\ Idle
    /\ pc = "created"
    /\ CleanupCalls < MaxCleanups
    /\ \E f \in FileValue(bitmap_data) : CleanupBody(bitmap_data, f)
    /\ bitmap_data' = [bitmap_data EXCEPT !.pixels = NullBuf, !.file = "NULL"]
    /\ cleanups' = [cleanups EXCEPT !.created = @ + 1]
    /\ UNCHANGED <<args, pc, rpc, bitmap, rd, disk, oob, hist, row>>

\* cleanup(&image) on the BITMAP ReadBitMap returned
CleanupRead ==
    /\ Idle
    /\ rpc = "returned"
    /\ CleanupCalls < MaxCleanups
    /\ \E f \in FileValue(bitmap) : CleanupBody(bitmap, f)
    /\ bitmap' = [bitmap EXCEPT !.pixels = NullBuf, !.file = "NULL"]
    /\ cleanups' = [cleanups EXCEPT !.read = @ + 1]
    /\ UNCHANGED <<args, pc, bitmap_data, rpc, rd, disk, oob, hist, row>>

\* ------------------------------------------------------------------------
\* InvertPixel and SetPixel
\* ------------------------------------------------------------------------
InvertByte(v) == IF v = Uninit THEN Uninit ELSE 255 - v

\* InvertOffsets with the fourth byte of the pixel inverted too
InvertOffsetsAll(i) == {i, i + 1, i + 2, i + 3}

\* the offsets one iteration of InvertPixel's loop reads and writes
InvertOffsets(i) == {i, i + 1, i + 2}

RECURSIVE InvertTouched(_, _)
\* every offset the loop for (i = 0; i < image_size; i += 4) touches, from i on
InvertTouched(i, image_size) ==
    IF ~(i < image_size) THEN {}
    ELSE InvertOffsets(i) \cup InvertTouched(i + 4, image_size)

RECURSIVE InvertLoop(_, _, _)
\* the cells of the block after the loop has run from i on
InvertLoop(cells, i, image_size) ==
    IF ~(i < image_size) THEN cells
    ELSE InvertLoop([k \in DOMAIN cells |->
                        IF (k - 1) \in InvertOffsets(i) THEN InvertByte(cells[k])
                        ELSE cells[k]],
                    i + 4, image_size)

\* the sizes a caller passes to InvertPixel: the image_size of the header, or
\* the size of the pixel data without the padding
InvertSizes(bmp) ==
    {WVal(bmp.info_header.image_size),
     bmp.info_header.bitmap_width * Abs(bmp.info_header.bitmap_height)
         * (bmp.info_header.bits_per_pixel \div 8)}

\* InvertPixel(image.pixels, image_size)
InvertPixel(image_size) ==
    /\ pc = "generated"
    /\ Len(hist.calls) < MaxInverts
    /\ bitmap_data.pixels # NullBuf
    /\ image_size \in InvertSizes(bitmap_data)
    /\ LET buf == bitmap_data.pixels
           touched == InvertTouched(0, image_size)
       IN  /\ bitmap_data' = [bitmap_data EXCEPT !.pixels.mem =
                                 InvertLoop(Cells(buf), 0, image_size)]
           /\ oob' = oob \cup {<<buf.id, o>> : o \in {k \in touched : k >= WVal(buf.cap)}}
           /\ hist' = [hist EXCEPT
                         !.calls = Append(@, [op |-> "InvertPixel",
                                              image_size |-> image_size]),
                         !.before2 = hist.before,
                         !.before = Cells(buf),
                         !.touched = touched]
    /\ UNCHANGED <<args, pc, rpc, bitmap, rd, disk, streams, iolog, frees,
                   stderr, cleanups, row>>

\* uint32_t index = (y * file->info_header.bitmap_width + x) * 4
SetPixelIndex(x, y, bitmap_width) ==
    WMul(WAdd(WMul(U32(y), U32(bitmap_width)), U32(x)), U32(4))

\* the four bytes SetPixel stores from index on
SetPixelBytes(red, green, blue, alpha) == <<blue, green, red, alpha>>

\* the offsets SetPixel writes for a call (x, y): no check of x or y
SetPixelWrites(x, y, bmp) ==
    LET index == WVal(SetPixelIndex(x, y, bmp.info_header.bitmap_width))
    IN  index..(index + 3)

Colours == {[red |-> 11, green |-> 22, blue |-> 33, alpha |-> 44]}

\* SetPixel(x, y, red, green, blue, alpha, &image)
SetPixel(x, y, c) ==
    /\ pc = "generated"
    /\ Len(hist.calls) < MaxSetPixels
    /\ bitmap_data.pixels # NullBuf
    /\ LET buf == bitmap_data.pixels
           cells == Cells(buf)
           writes == SetPixelWrites(x, y, bitmap_data)
           bytes == SetPixelBytes(c.red, c.green, c.blue, c.alpha)
           first == WVal(SetPixelIndex(x, y, bitmap_data.info_header.bitmap_width))
       IN  /\ bitmap_data' = [bitmap_data EXCEPT !.pixels = StoreAt(buf, first, bytes)]
           /\ oob' = oob \cup {<<buf.id, o>> : o \in {k \in writes : k >= WVal(buf.cap)}}
           /\ hist' = [hist EXCEPT
                         !.calls = Append(@, [op |-> "SetPixel", x |-> x, y |-> y,
                                              c |-> c]),
                         !.before2 = hist.before,
                         !.before = cells,
                         !.touched = writes]
    /\ UNCHANGED <<args, pc, rpc, bitmap, rd, disk, streams, iolog, frees,
                   stderr, cleanups, row>>

\* ------------------------------------------------------------------------
\* A lone evaluation of ROW_SIZE
\* ------------------------------------------------------------------------
EvalRowSize ==
    /\ pc = "macro"
    /\ row' \in ROW_SIZE(args.bits_per_pixel, args.width)
    /\ pc' = "evaluated"
    /\ UNCHANGED <<args, bitmap_data, rpc, bitmap, rd, disk, streams, iolog,
                   frees, oob, stderr, cleanups, hist>>

\* ------------------------------------------------------------------------
\* Specifications
\* ------------------------------------------------------------------------
\* CreateBitMap, then ReadBitMap of the file and cleanup of either image
Next ==
    \/ Generate
    \/ CreateFopen
    \/ WriteFileHeader
    \/ WriteInfoHeader
    \/ WritePixels
    \/ CreateReturn
    \/ ReadOpen
    \/ ReadRow
    \/ ReadReturn
    \/ CleanupNull
    \/ CleanupCreated
    \/ CleanupRead

Spec == Init /\ [][Next]_vars

\* GenerateBitMapData alone, for heights of either sign
InitEncode ==
    /\ \E width \in 1..MaxWidth,
          height \in ((0 - MaxHeight)..MaxHeight) \ {0},
          bits_per_pixel \in Depths, seed \in Seeds, compression \in Compressions :
          args = [width |-> width, height |-> height,
                  bits_per_pixel |-> bits_per_pixel,
                  pixels |-> Pattern(seed, width * Abs(height) * (bits_per_pixel \div 8)),
                  compression |-> compression]
    /\ InitRest

NextEncode == Generate

SpecEncode == InitEncode /\ [][NextEncode]_vars

\* Pixel operations on an image GenerateBitMapData returned
InitPixel ==
    /\ \E width \in 1..MaxWidth, height \in 1..MaxHeight,
          bits_per_pixel \in Depths, seed \in Seeds :
          /\ args = [width |-> width, height |-> height,
                     bits_per_pixel |-> bits_per_pixel,
                     pixels |-> Pattern(seed, width * height * (bits_per_pixel \div 8)),
                     compression |-> BI_RGB]
          /\ bitmap_data \in GenerateBitMapData(width, height, bits_per_pixel,
                                                args.pixels, BI_RGB)
    /\ pc = "generated"
    /\ rpc = "idle"
    /\ bitmap = NoImage
    /\ rd = [row_size |-> U32(0), pixel_size |-> 0, padded_row_size |-> U32(0),
             ptr |-> 0, y |-> 0]
    /\ disk = <<>>
    /\ streams = [f \in {"fCreate", "fRead"} |-> ClosedStream]
    /\ iolog = <<>>
    /\ frees = <<>>
    /\ oob = {}
    /\ stderr = <<>>
    /\ cleanups = [created |-> 0, read |-> 0, null |-> 0]
    /\ hist = [calls |-> <<>>, before2 |-> <<>>, before |-> <<>>, touched |-> {}]
    /\ row = <<>>

\* InvertPixel, up to MaxInverts calls in a row
NextInvert ==
    \E image_size \in 1..(4 * (MaxWidth + 1) * (MaxHeight + 1)) :
        InvertPixel(image_size)

SpecInvert == InitPixel /\ [][NextInvert]_vars

\* SetPixel, up to MaxSetPixels calls in a row, with x and y in and out of range
NextSetPixel ==
    \E x \in 0..MaxWidth, y \in 0..MaxHeight, c \in Colours : SetPixel(x, y, c)

SpecSetPixel == InitPixel /\ [][NextSetPixel]_vars

\* ROW_SIZE on its own, over widths up to INT_MAX
MaxStrideWidth == 24

BigWidths == {67108863, 67108864, 89478484, 89478485, 89478486, 134217727,
              134217728, 178956971, 1431655765, 1431655766, 2147483647}

InitStride ==
    /\ \E width \in (1..MaxStrideWidth) \cup BigWidths, bits_per_pixel \in Depths :
          args = [width |-> width, height |-> 1, bits_per_pixel |-> bits_per_pixel,
                  pixels |-> <<>>, compression |-> BI_RGB]
    /\ pc = "macro"
    /\ bitmap_data = NoImage
    /\ rpc = "idle"
    /\ bitmap = NoImage
    /\ rd = [row_size |-> U32(0), pixel_size |-> 0, padded_row_size |-> U32(0),
             ptr |-> 0, y |-> 0]
    /\ disk = <<>>
    /\ streams = [f \in {"fCreate", "fRead"} |-> ClosedStream]
    /\ iolog = <<>>
    /\ frees = <<>>
    /\ oob = {}
    /\ stderr = <<>>
    /\ cleanups = [created |-> 0, read |-> 0, null |-> 0]
    /\ hist = [calls |-> <<>>, before2 |-> <<>>, before |-> <<>>, touched |-> {}]
    /\ row = <<>>

NextStride == EvalRowSize

SpecStride == InitStride /\ [][NextStride]_vars

\* ------------------------------------------------------------------------
\* Properties
\* ------------------------------------------------------------------------
\* the stride and sizes as the BMP format defines them, in plain integers
\* (the images of Spec, SpecEncode, SpecInvert and SpecSetPixel are small)
Stride(bits_per_pixel, width) == ((bits_per_pixel * width + 31) \div 32) * 4

PixelSize == args.bits_per_pixel \div 8

DataSize == args.width * Abs(args.height) * PixelSize

PaddedSize == Stride(args.bits_per_pixel, args.width) * Abs(args.height)

CountOf(seq, Test(_)) == Cardinality({i \in DOMAIN seq : Test(seq[i])})

\* C1: reading back the file CreateBitMap wrote, ReadBitMap returns a buffer
\* whose first width * height * (bits_per_pixel / 8) bytes are the caller's
\* unpadded pixel buffer, byte for byte and row by row.
RoundTrip ==
    (rpc = "returned" /\ bitmap.pixels # NullBuf) =>
        /\ Len(bitmap.pixels.mem) >= DataSize
        /\ SubSeq(bitmap.pixels.mem, 1, DataSize) = args.pixels
        /\ \A y \in 0..(args.height - 1), k \in 1..(args.width * PixelSize) :
               bitmap.pixels.mem[y * args.width * PixelSize + k]
                   = args.pixels[y * args.width * PixelSize + k]

\* a decoded image of two or more rows of 24bpp pixels that carry padding on
\* disk, equal to the input
RoundTripWitness ==
    /\ rpc = "returned"
    /\ bitmap.pixels # NullBuf
    /\ args.height >= 2
    /\ args.bits_per_pixel = 24
    /\ Stride(24, args.width) > args.width * 3
    /\ SubSeq(bitmap.pixels.mem, 1, DataSize) = args.pixels

\* C9: CreateBitMap opens the file "wb+", writes the 14 bytes of the file
\* header, the 108 bytes of the info header and image_size bytes of padded
\* pixels, in that order and nothing else, and returns with the stream at
\* byte 0, so that a read right after it starts with "BM".
CreateOrdering ==
    LET image_size == WVal(bitmap_data.info_header.image_size)
        fh == FileHeaderBytes(bitmap_data.file_header)
        ih == InfoHeaderBytes(bitmap_data.info_header)
        padded == CopyRows(args.pixels, args.width, PixelSize,
                           U32(Stride(args.bits_per_pixel, args.width)), 0,
                           args.height)
    IN  /\ pc = "opened" =>
              /\ disk = <<>>
              /\ streams["fCreate"] = [open |-> TRUE, mode |-> "wb+", pos |-> 0]
        /\ pc = "wroteFileHeader" => Len(disk) = 14 /\ disk = fh
        /\ pc = "wroteInfoHeader" => Len(disk) = 14 + 108 /\ disk = fh \o ih
        /\ pc = "wrotePixels" =>
              /\ Len(disk) = 14 + 108 + image_size
              /\ disk = fh \o ih \o padded
              /\ streams["fCreate"].pos = Len(disk)
        /\ pc = "created" =>
              /\ Len(iolog) >= 5
              /\ SubSeq(iolog, 1, 5) =
                    <<[op |-> "fopen",  f |-> "fCreate", n |-> 0],
                      [op |-> "fwrite", f |-> "fCreate", n |-> 14],
                      [op |-> "fwrite", f |-> "fCreate", n |-> 108],
                      [op |-> "fwrite", f |-> "fCreate", n |-> image_size],
                      [op |-> "fseek",  f |-> "fCreate", n |-> 0]>>
              /\ CountOf(iolog, LAMBDA e : e.op = "fwrite") = 3
              /\ disk = fh \o ih \o padded
              /\ Len(padded) = image_size
        /\ (pc = "created" /\ cleanups.created = 0) =>
              /\ bitmap_data.file = "fCreate"
              /\ streams["fCreate"] = [open |-> TRUE, mode |-> "wb+", pos |-> 0]
              /\ Fread(disk, streams["fCreate"].pos, 2) = <<66, 77>>
              /\ Fread(disk, streams["fCreate"].pos, Len(disk)) = fh \o ih \o padded

\* CreateBitMap has returned an image with padded rows and the stream is
\* rewound on a file that starts with "BM"
CreateOrderingWitness ==
    /\ pc = "created"
    /\ cleanups.created = 0
    /\ streams["fCreate"].pos = 0
    /\ PaddedSize > DataSize
    /\ Len(disk) = 14 + 108 + PaddedSize
    /\ SubSeq(disk, 1, 2) = <<66, 77>>

\* C10: decoding a file CreateBitMap wrote, every byte ReadBitMap stores lies
\* inside the image_size bytes it allocated: row y is read to offset
\* y * width * pixel_size, the padding a row leaves is overwritten by the next
\* row, and the last read ends at or before image_size.
DecoderWriteBounds ==
    rpc \in {"rows", "returned"} =>
        LET ih == bitmap.info_header
            rowbytes == ih.bitmap_width * rd.pixel_size
            image_size == Stride(args.bits_per_pixel, args.width) * args.height
        IN  /\ {e \in oob : e[1] = "decoded"} = {}
            /\ rd.ptr = rd.y * rowbytes
            /\ WVal(rd.padded_row_size) = Stride(args.bits_per_pixel, args.width)
            /\ rd.y >= 1 =>
                  (rd.y - 1) * rowbytes + WVal(rd.padded_row_size) <= image_size
            /\ bitmap.pixels # NullBuf =>
                  /\ WVal(bitmap.pixels.cap) = image_size
                  /\ Len(bitmap.pixels.mem) <= image_size
                  /\ rd.y >= 1 =>
                        Len(bitmap.pixels.mem)
                            = (rd.y - 1) * rowbytes + WVal(rd.padded_row_size)
                  /\ \A k \in 1..Len(bitmap.pixels.mem) :
                        IF k <= rd.y * rowbytes
                        THEN bitmap.pixels.mem[k] = args.pixels[k]
                        ELSE bitmap.pixels.mem[k] = 0

\* the second row of a padded image has been read over the first row's padding
DecoderWriteBoundsWitness ==
    /\ rpc = "rows"
    /\ rd.y = 2
    /\ WVal(rd.padded_row_size) > bitmap.info_header.bitmap_width * rd.pixel_size
    /\ Len(bitmap.pixels.mem)
           = bitmap.info_header.bitmap_width * rd.pixel_size
             + WVal(rd.padded_row_size)
    /\ bitmap.pixels.mem[bitmap.info_header.bitmap_width * rd.pixel_size + 1]
           = args.pixels[bitmap.info_header.bitmap_width * rd.pixel_size + 1]
    /\ oob = {}

\* C4: after cleanup of an image from CreateBitMap or from ReadBitMap the pixel
\* buffer has been freed exactly once and every stream the codec opened has
\* been closed exactly once; cleanup never closes a stream that is absent or
\* already closed, and it skips an absent buffer or stream with a diagnostic.
ReleaseDiscipline ==
    /\ \A i \in DOMAIN iolog : iolog[i].op = "fclose" => iolog[i].n = 1
    /\ cleanups.created >= 1 =>
          /\ CountOf(frees, LAMBDA b : b = "encoded") = 1
          /\ CountOf(iolog, LAMBDA e : e.op = "fclose" /\ e.f = "fCreate") = 1
    /\ cleanups.read >= 1 =>
          /\ CountOf(frees, LAMBDA b : b = "decoded") = 1
          /\ CountOf(iolog, LAMBDA e : e.op = "fclose" /\ e.f = "fRead") = 1
    /\ cleanups.created >= 2 =>
          /\ CountOf(stderr, LAMBDA m : m = "bmp->pixels is NULL. Not freeing!") >= 1
          /\ CountOf(stderr, LAMBDA m : m = "bmp->file is NULL. Not closing!") >= 1

\* C2: the image GenerateBitMapData returns has image_size = row_size *
\* |height|, size = 14 + 108 + image_size, offset = 122 and a pixel buffer of
\* |height| padded rows, for heights of either sign.
SizeLaw ==
    pc = "generated" =>
        /\ bitmap_data.info_header.image_size = U32(PaddedSize)
        /\ bitmap_data.file_header.size = U32(14 + 108 + PaddedSize)
        /\ bitmap_data.file_header.offset = U32(122)
        /\ bitmap_data.pixels # NullBuf
        /\ bitmap_data.pixels.cap = U32(PaddedSize)
        /\ Len(bitmap_data.pixels.mem) = PaddedSize

\* C8 as stated: masks and colour-space tag are populated at 32bpp only, and
\* all five are zero at 24bpp.
EncoderFieldsAt32Only ==
    pc = "generated" =>
        LET ih == bitmap_data.info_header
        IN  IF ih.bits_per_pixel = 32
            THEN /\ ih.red_mask = <<0, 0, 255, 0>>
                 /\ ih.green_mask = <<0, 255, 0, 0>>
                 /\ ih.blue_mask = <<255, 0, 0, 0>>
                 /\ ih.alpha_mask = <<0, 0, 0, 255>>
                 /\ ih.color_space = <<115, 82, 71, 66>>
            ELSE /\ ih.red_mask = <<0, 0, 0, 0>>
                 /\ ih.green_mask = <<0, 0, 0, 0>>
                 /\ ih.blue_mask = <<0, 0, 0, 0>>
                 /\ ih.alpha_mask = <<0, 0, 0, 0>>
                 /\ ih.color_space = <<0, 0, 0, 0>>

\* C8 amended: the four masks are populated at 32bpp and zero at 24bpp; the
\* colour-space tag is the packed "sRGB" value at both depths.
EncoderMasksByDepth ==
    pc = "generated" =>
        LET ih == bitmap_data.info_header
        IN  /\ ih.color_space = <<115, 82, 71, 66>>
            /\ IF ih.bits_per_pixel = 32
               THEN /\ ih.red_mask = <<0, 0, 255, 0>>
                    /\ ih.green_mask = <<0, 255, 0, 0>>
                    /\ ih.blue_mask = <<255, 0, 0, 0>>
                    /\ ih.alpha_mask = <<0, 0, 0, 255>>
               ELSE /\ ih.red_mask = <<0, 0, 0, 0>>
                    /\ ih.green_mask = <<0, 0, 0, 0>>
                    /\ ih.blue_mask = <<0, 0, 0, 0>>
                    /\ ih.alpha_mask = <<0, 0, 0, 0>>

\* a 24bpp image has been generated: zero masks and the sRGB tag
EncoderMasksByDepthWitness ==
    /\ pc = "generated"
    /\ bitmap_data.info_header.bits_per_pixel = 24
    /\ bitmap_data.info_header.red_mask = <<0, 0, 0, 0>>
    /\ bitmap_data.info_header.color_space = <<115, 82, 71, 66>>

\* C3: for every width in 1..INT_MAX and depth 24 or 32 the value ROW_SIZE
\* yields is a multiple of 4 and at least width * bits_per_pixel / 8; width 1
\* at 24bpp gives 4.
StrideLaw ==
    pc = "evaluated" =>
        /\ row[1] % 4 = 0
        /\ WLeq(UDiv(WMul(U64(args.width), U64(args.bits_per_pixel)), 8), Widen(row))
        /\ (args.width = 1 /\ args.bits_per_pixel = 24) =>
              row = <<4, 0, 0, 0>> /\ IMAGE_SIZE(row, 1) = <<4, 0, 0, 0>>

\* C5: on a 32bpp image SetPixel(x, y, ...) with x >= width or y >= height
\* reports an error and writes nothing, inside the buffer or outside; with x
\* and y in range it writes blue, green, red, alpha at (y * width + x) * 4 and
\* nothing else.
SetPixelBounds ==
    (args.bits_per_pixel = 32 /\ Len(hist.calls) >= 1) =>
        LET call == hist.calls[Len(hist.calls)]
            index == (call.y * args.width + call.x) * 4
            mem == bitmap_data.pixels.mem
        IN  IF call.x >= args.width \/ call.y >= args.height
            THEN /\ stderr # <<>>
                 /\ mem = hist.before
                 /\ oob = {}
            ELSE /\ mem = [k \in DOMAIN hist.before |->
                              IF k = index + 1 THEN call.c.blue
                              ELSE IF k = index + 2 THEN call.c.green
                              ELSE IF k = index + 3 THEN call.c.red
                              ELSE IF k = index + 4 THEN call.c.alpha
                              ELSE hist.before[k]]
                 /\ oob = {}

\* the offsets of the three colour bytes of every pixel of the generated
\* buffer, and of the alpha bytes of a 32bpp buffer
ChannelOffsets ==
    {y * Stride(args.bits_per_pixel, args.width) + x * PixelSize + c :
        y \in 0..(args.height - 1), x \in 0..(args.width - 1), c \in 0..2}

AlphaOffsets ==
    IF args.bits_per_pixel # 32 THEN {}
    ELSE {4 * p + 3 : p \in 0..(args.width * args.height - 1)}

\* C6: two InvertPixel calls with the same image_size restore the three
\* colour bytes of every pixel, and no call changes an alpha byte of a 32bpp
\* buffer.
InvertInvolution ==
    LET n == Len(hist.calls)
        mem == bitmap_data.pixels.mem
    IN  /\ (n >= 2 /\ hist.calls[n].image_size = hist.calls[n - 1].image_size) =>
              \A o \in ChannelOffsets : mem[o + 1] = hist.before2[o + 1]
        /\ n >= 1 => \A o \in AlphaOffsets : mem[o + 1] = hist.before[o + 1]

\* InvertPixel has run twice with the same size on a 32bpp buffer: the colour
\* bytes were inverted by the first call and are back
InvertInvolutionWitness ==
    /\ Len(hist.calls) = 2
    /\ hist.calls[1].image_size = hist.calls[2].image_size
    /\ args.bits_per_pixel = 32
    /\ hist.before[1] = 255 - hist.before2[1]
    /\ bitmap_data.pixels.mem = hist.before2

\* C7: one InvertPixel(pixels, image_size) call turns every colour byte v of
\* every pixel into 255 - v, at 24bpp and at 32bpp, leaves alpha bytes alone
\* and touches no offset >= image_size.
InvertStride ==
    LET n == Len(hist.calls)
        mem == bitmap_data.pixels.mem
    IN  (n >= 1 /\ hist.calls[n].image_size = PaddedSize) =>
            /\ \A o \in ChannelOffsets : mem[o + 1] = 255 - hist.before[o + 1]
            /\ \A o \in AlphaOffsets : mem[o + 1] = hist.before[o + 1]
            /\ \A o \in hist.touched : o < hist.calls[n].image_size

====
